---- MODULE Spec2Model ----
(***************************************************************************)
(* A model of the boltdb storage adapter of go-ap/storage                  *)
(* (src/boltdb/boltdb.go): the store file with its root bucket and the     *)
(* four kind buckets, the adapter handle returned by New, the per-kind     *)
(* Load and Save operations, LoadCollection, the unsupported operations    *)
(* and GenerateID.                                                         *)
(*                                                                         *)
(* Byte strings (IRIs, keys, prefixes, bucket names used as substrings)    *)
(* are sequences of one-character strings, so that byte-prefix tests,      *)
(* lexicographic key order, substring search and lower-casing are          *)
(* computed and not assumed.                                               *)
(***************************************************************************)
EXTENDS Integers, Sequences, FiniteSets, TLC

VARIABLES
    store,      \* the store file: existence, validity, root bucket, kind buckets
    lock,       \* holder of the exclusive file lock: "free", "adapter", "leaked"
    db,         \* the adapter (boltDB struct): [open, root]
    uuids,      \* number of tokens uuid.New() has produced so far
    minted,     \* the identifiers GenerateID has returned for Actor/Object kinds
    last,       \* the last public call: its arguments and what it returned
    pre,        \* the store file as it was when the last public call started
    saved,      \* per kind bucket, the Items whose Save succeeded, the latest
                \* one per identifier (what the callers know they have saved)
    conc        \* calls in progress on their goroutines, step by step, and the
                \* engine's locks: [load, save, readers, remap]

vars == <<store, lock, db, uuids, minted, last, pre, saved, conc>>

----------------------------------------------------------------------------
(* Bounds of the model *)

\* GenerateID is called at most MaxUuid times
MaxUuid == 2

----------------------------------------------------------------------------
(* Byte strings *)

\* The characters in use, in ascending byte order (ASCII).
Alphabet ==
    << "/", "0", "1", "2", "3", "4", "5", "6", "7", "8", "9",
       "A", "O", "a", "b", "c", "e", "i", "j", "o", "r", "s", "t", "u", "v", "z" >>

Ord(c) == CHOOSE i \in 1..Len(Alphabet) : Alphabet[i] = c

\* bytes.HasPrefix
HasPrefix(k, p) == Len(p) <= Len(k) /\ SubSeq(k, 1, Len(p)) = p

\* bytes.Compare(a, b) < 0 : the key order of a bucket
RECURSIVE BytesLess(_, _)
BytesLess(a, b) ==
    IF b = <<>> THEN FALSE
    ELSE IF a = <<>> THEN TRUE
    ELSE IF a[1] = b[1] THEN BytesLess(Tail(a), Tail(b))
    ELSE Ord(a[1]) < Ord(b[1])

\* strings.Contains
Contains(s, sub) ==
    \E i \in 0..(Len(s) - Len(sub)) : SubSeq(s, i + 1, i + Len(sub)) = sub

LowerChar(c) == IF c = "A" THEN "a" ELSE IF c = "O" THEN "o" ELSE c

\* strings.ToLower
ToLower(s) == [i \in 1..Len(s) |-> LowerChar(s[i])]

bucketActors == <<"a", "c", "t", "o", "r", "s">>
bucketActivities == <<"a", "c", "t", "i", "v", "i", "t", "i", "e", "s">>
bucketObjects == <<"o", "b", "j", "e", "c", "t", "s">>
bucketCollections == <<"c", "o", "l", "l", "e", "c", "t", "i", "o", "n", "s">>

----------------------------------------------------------------------------
(* The object codec (jsonld.Marshal, as.UnmarshalJSON, jsonld.Unmarshal) *)

\* An Item as the adapter sees it: identifier, type tag, and the rest of it.
Item(id, type, content) == [id |-> id, type |-> type, content |-> content]

\* it.GetLink(): the IRI an Item is stored under
GetLink(it) == it.id

\* jsonld.Marshal(it): the blob of an Item
Marshal(it) == [fmt |-> "json", doc |-> <<it.type, it.id, it.content>>]

\* as.UnmarshalJSON(v): ok is FALSE when the blob does not parse as an Item
UnmarshalJSON(v) ==
    IF v.fmt = "json" /\ Len(v.doc) = 3
    THEN [ok |-> TRUE, it |-> Item(v.doc[2], v.doc[1], v.doc[3])]
    ELSE [ok |-> FALSE, it |-> Item(<<>>, "", 0)]

\* The blob of a membership list, as stored in the collections bucket
MarshalIRIs(iris) == [fmt |-> "json", doc |-> <<"iris", iris>>]

\* jsonld.Unmarshal(blob, &IRIs): ok is FALSE when the blob is no list of IRIs
UnmarshalIRIs(v) ==
    IF v.fmt = "json" /\ Len(v.doc) = 2 /\ v.doc[1] = "iris"
    THEN [ok |-> TRUE, iris |-> v.doc[2]]
    ELSE [ok |-> FALSE, iris |-> <<>>]

\* A blob that no decoder accepts; also what Get returns for an absent key
NoBlob == [fmt |-> "none", doc |-> <<>>]

----------------------------------------------------------------------------
(* The key-value engine: a bucket is its entries in ascending key order *)

NoBucket == [present |-> FALSE, entries |-> <<>>]
EmptyBucket == [present |-> TRUE, entries |-> <<>>]

Keys(b) == {b.entries[i].k : i \in 1..Len(b.entries)}

\* Number of entries that sort before key k
Rank(es, k) == Cardinality({i \in 1..Len(es) : BytesLess(es[i].k, k)})

\* tx.Bucket(name): the root bucket of that name, NoBucket (nil) when absent
RootName == <<"a", "p">>
OtherName == <<"z">>

TxBucket(st, name) ==
    IF st.exists /\ st.root.present /\ name = RootName
    THEN [present |-> TRUE, sub |-> st.root.sub]
    ELSE [present |-> FALSE, sub |-> st.root.sub]

\* root.Bucket(name): a nested bucket, NoBucket (nil) when absent
SubBucket(rb, name) == IF rb.present THEN rb.sub[name] ELSE NoBucket

\* b.Put(key, value) inside a write transaction: replaces the value of an
\* existing key, inserts a new key at its place in key order, and refuses
\* the empty key
PutSkipsExisting(b, k, v) ==
    IF k = <<>> THEN [err |-> "KeyRequired", b |-> b]
    ELSE IF k \in Keys(b) THEN [err |-> "", b |-> b]
    ELSE LET n == Rank(b.entries, k)
         IN  [err |-> "",
              b |-> [b EXCEPT !.entries =
                       SubSeq(b.entries, 1, n) \o <<[k |-> k, v |-> v]>>
                       \o SubSeq(b.entries, n + 1, Len(b.entries))]]

PutAppends(b, k, v) ==
    IF k = <<>> THEN [err |-> "KeyRequired", b |-> b]
    ELSE LET n == Cardinality({i \in 1..Len(b.entries) :
                       BytesLess(b.entries[i].k, k) \/ b.entries[i].k = k})
         IN  [err |-> "",
              b |-> [b EXCEPT !.entries =
                       SubSeq(b.entries, 1, n) \o <<[k |-> k, v |-> v]>>
                       \o SubSeq(b.entries, n + 1, Len(b.entries))]]

Put(b, k, v) ==
    IF k = <<>> THEN [err |-> "KeyRequired", b |-> b]
    ELSE LET n == Rank(b.entries, k)
             m == IF k \in Keys(b) THEN n + 1 ELSE n
         IN  [err |-> "",
              b |-> [b EXCEPT !.entries =
                       SubSeq(b.entries, 1, n) \o <<[k |-> k, v |-> v]>>
                       \o SubSeq(b.entries, m + 1, Len(b.entries))]]

\* b.Get(key): the value at exactly that key, NoBlob (nil) when absent
GetByPrefix(b, k) ==
    IF \E i \in 1..Len(b.entries) : HasPrefix(b.entries[i].k, k)
    THEN b.entries[CHOOSE i \in 1..Len(b.entries) :
                       /\ HasPrefix(b.entries[i].k, k)
                       /\ \A j \in 1..(i - 1) : ~HasPrefix(b.entries[j].k, k)].v
    ELSE [fmt |-> "none", doc |-> <<>>]

Get(b, k) ==
    IF k \in Keys(b)
    THEN b.entries[CHOOSE i \in 1..Len(b.entries) : b.entries[i].k = k].v
    ELSE NoBlob

\* c.Seek(prefix): position of the first entry whose key is >= prefix,
\* 0 (a nil key) when there is none
SeekPast(b, prefix) ==
    LET n == Cardinality({i \in 1..Len(b.entries) :
                 BytesLess(b.entries[i].k, prefix) \/ b.entries[i].k = prefix})
    IN  IF n < Len(b.entries) THEN n + 1 ELSE 0

Seek(b, prefix) ==
    LET n == Rank(b.entries, prefix)
    IN  IF n < Len(b.entries) THEN n + 1 ELSE 0

\* c.Next(): the position after i, 0 (a nil key) at the end
CursorNext(b, i) == IF i < Len(b.entries) THEN i + 1 ELSE 0

----------------------------------------------------------------------------
(* The adapter's functions *)

\* Error kinds: "" is nil; "Error" is errors.Errorf / fmt.Errorf;
\* "NotFound" is errors.NotFoundf; "NotImplemented" is errors.NotImplementedf;
\* "Marshal" is the codec's error; "IO" is an error of the engine's commit.

\* bolt.Open(c.Path, 0600, nil): creates the file when there is none, fails
\* on a file that is no database (and then releases it again); on success the
\* handle holds the exclusive file lock
BoltOpen(st) ==
    IF ~st.exists THEN [err |-> "", st |-> [st EXCEPT !.exists = TRUE, !.valid = TRUE]]
    ELSE IF ~st.valid THEN [err |-> "Open", st |-> st]
    ELSE [err |-> "", st |-> st]

\* New(c): what it returns, the file afterwards, the handle and the lock.
\* The handle db of a failed root check is dropped without db.Close().
NewAdapter(st, bucketName) ==
    LET o == BoltOpen(st)
    IN  IF o.err # ""
        THEN [err |-> "Open", st |-> o.st, open |-> FALSE, lock |-> "free"]
        ELSE IF ~TxBucket(o.st, bucketName).present
        THEN [err |-> "NotFound", st |-> o.st, open |-> FALSE, lock |-> "leaked"]
        ELSE [err |-> "", st |-> o.st, open |-> TRUE, lock |-> "adapter"]

\* The inner loop of loadFromBucket: from cursor position i, append every
\* entry that decodes while the key still starts with prefix
RECURSIVE ScanFrom(_, _, _, _)
ScanFromToEnd(b, prefix, i, col) ==
    IF i # 0
    THEN LET d == UnmarshalJSON(b.entries[i].v)
         IN  ScanFrom(b, prefix, CursorNext(b, i),
                      IF d.ok THEN Append(col, d.it) ELSE col)
    ELSE col

ScanFromStopsAtBadValue(b, prefix, i, col) ==
    IF i # 0 /\ HasPrefix(b.entries[i].k, prefix)
    THEN LET d == UnmarshalJSON(b.entries[i].v)
         IN  IF d.ok THEN ScanFrom(b, prefix, CursorNext(b, i), Append(col, d.it))
             ELSE col
    ELSE col

ScanFrom(b, prefix, i, col) ==
    IF i # 0 /\ HasPrefix(b.entries[i].k, prefix)
    THEN LET d == UnmarshalJSON(b.entries[i].v)
         IN  ScanFrom(b, prefix, CursorNext(b, i),
                      IF d.ok THEN Append(col, d.it) ELSE col)
    ELSE col

\* The outer loop of loadFromBucket: one Seek and scan per IRI of the filter
RECURSIVE ScanIRIs(_, _, _)
InCol(col, it) == \E i \in 1..Len(col) : col[i] = it

RECURSIVE Dedup(_)
Dedup(col) ==
    IF col = <<>> THEN <<>>
    ELSE LET front == Dedup(SubSeq(col, 1, Len(col) - 1))
         IN  IF InCol(front, col[Len(col)]) THEN front
             ELSE Append(front, col[Len(col)])

ScanIRIsDedup(b, iris, col) ==
    IF iris = <<>> THEN col
    ELSE ScanIRIs(b, Tail(iris),
                  Dedup(ScanFrom(b, Head(iris), Seek(b, Head(iris)), col)))

ScanIRIs(b, iris, col) ==
    IF iris = <<>> THEN col
    ELSE ScanIRIs(b, Tail(iris),
                  ScanFrom(b, Head(iris), Seek(b, Head(iris)), col))

\* loadFromBucket(db, root, bucket, f)
loadFromBucket(st, root, bucket, f) ==
    LET rb == TxBucket(st, root)
        b == SubBucket(rb, bucket)
    IN  IF ~rb.present THEN [col |-> <<>>, count |-> 0, err |-> "Error"]
        ELSE IF ~b.present THEN [col |-> <<>>, count |-> 0, err |-> "Error"]
        ELSE LET col == ScanIRIs(b, f, <<>>)
             IN  [col |-> col, count |-> Len(col), err |-> ""]

\* save(db, rootBkt, bucket, it): what it returns and the file afterwards.
\* fault is what goes wrong outside the adapter's control in this call:
\* "marshal" (jsonld.Marshal fails), "commit" (the engine's commit fails).
WithBucketEverywhere(st, bucket, b) ==
    [st EXCEPT !.root.sub =
        [n \in DOMAIN @ |-> IF n = bucket \/ (@[n].present /\ @[n].entries = <<>>)
                            THEN b ELSE @[n]]]

WithBucket(st, bucket, b) == [st EXCEPT !.root.sub[bucket] = b]

saveNoRollback(st, rootBkt, bucket, it, fault) ==
    LET root == TxBucket(st, rootBkt)
        b == SubBucket(root, bucket)
        put == Put(b, GetLink(it), Marshal(it))
    IN  IF fault = "marshal" THEN [it |-> it, err |-> "Marshal", st |-> st]
        ELSE IF ~root.present THEN [it |-> it, err |-> "Error", st |-> st]
        ELSE IF ~b.present THEN [it |-> it, err |-> "Error", st |-> st]
        ELSE IF put.err # "" THEN [it |-> it, err |-> "Error", st |-> st]
        ELSE IF fault = "commit"
        THEN [it |-> it, err |-> "IO", st |-> WithBucket(st, bucket, put.b)]
        ELSE [it |-> it, err |-> "", st |-> WithBucket(st, bucket, put.b)]

save(st, rootBkt, bucket, it, fault) ==
    LET root == TxBucket(st, rootBkt)
        b == SubBucket(root, bucket)
        put == Put(b, GetLink(it), Marshal(it))
    IN  IF fault = "marshal" THEN [it |-> it, err |-> "Marshal", st |-> st]
        ELSE IF ~root.present THEN [it |-> it, err |-> "Error", st |-> st]
        ELSE IF ~b.present THEN [it |-> it, err |-> "Error", st |-> st]
        ELSE IF put.err # "" THEN [it |-> it, err |-> "Error", st |-> st]
        ELSE IF fault = "commit" THEN [it |-> it, err |-> "IO", st |-> st]
        ELSE [it |-> it, err |-> "", st |-> WithBucket(st, bucket, put.b)]

\* loadCollection: the body of LoadCollection(f). The nested per-kind Loads
\* read the same file; ret is the Collection built for the last IRI whose
\* membership list decoded, and the error of a nested Load is dropped.
NoCollection == [present |-> FALSE, id |-> <<>>, items |-> <<>>, total |-> 0]

CollectionFor(st, root, iri, IRIs) ==
    LET first == IF IRIs = <<>> THEN <<>> ELSE Head(IRIs)
        searchActivities == IRIs # <<>> /\ Contains(first, bucketActivities)
        searchActors == IRIs # <<>> /\ Contains(first, bucketActors)
        searchObjects == IRIs # <<>> /\ Contains(first, bucketObjects)
        la == loadFromBucket(st, root, bucketActivities, IRIs)
        lc == loadFromBucket(st, root, bucketActors, IRIs)
        lo == loadFromBucket(st, root, bucketObjects, IRIs)
        c0 == [present |-> TRUE, id |-> iri, items |-> <<>>, total |-> 0]
        c1 == IF searchActivities
              THEN [c0 EXCEPT !.items = la.col, !.total = la.count] ELSE c0
        c2 == IF searchActors
              THEN [c1 EXCEPT !.items = lc.col, !.total = lc.count] ELSE c1
        c3 == IF searchObjects
              THEN [c2 EXCEPT !.items = lo.col, !.total = lo.count] ELSE c2
    IN  c3

RECURSIVE CollectionLoop(_, _, _, _, _)
CollectionLoopMerges(st, root, cb, iris, ret) ==
    IF iris = <<>> THEN ret
    ELSE LET d == UnmarshalIRIs(Get(cb, Head(iris)))
             c == CollectionFor(st, root, Head(iris), d.iris)
         IN  CollectionLoop(st, root, cb, Tail(iris),
                 IF d.ok
                 THEN [c EXCEPT !.items = ret.items \o @,
                                !.total = ret.total + @]
                 ELSE ret)

CollectionLoop(st, root, cb, iris, ret) ==
    IF iris = <<>> THEN ret
    ELSE LET d == UnmarshalIRIs(Get(cb, Head(iris)))
         IN  CollectionLoop(st, root, cb, Tail(iris),
                 IF d.ok THEN CollectionFor(st, root, Head(iris), d.iris) ELSE ret)

loadCollectionPropagates(st, root, f) ==
    LET rb == TxBucket(st, root)
        cb == SubBucket(rb, bucketCollections)
        ret == CollectionLoop(st, root, cb, f, NoCollection)
        members == UnmarshalIRIs(Get(cb, ret.id)).iris
        nested == \E n \in {bucketActivities, bucketActors, bucketObjects} :
                     /\ members # <<>> /\ Contains(Head(members), n)
                     /\ loadFromBucket(st, root, n, members).err # ""
    IN  IF ~rb.present THEN [ret |-> NoCollection, err |-> "Error"]
        ELSE IF ~cb.present THEN [ret |-> NoCollection, err |-> "Error"]
        ELSE [ret |-> ret, err |-> IF ret.present /\ nested THEN "Error" ELSE ""]

loadCollection(st, root, f) ==
    LET rb == TxBucket(st, root)
        cb == SubBucket(rb, bucketCollections)
    IN  IF ~rb.present THEN [ret |-> NoCollection, err |-> "Error"]
        ELSE IF ~cb.present THEN [ret |-> NoCollection, err |-> "Error"]
        ELSE [ret |-> CollectionLoop(st, root, cb, f, NoCollection), err |-> ""]

\* Type tags: as.ActivityTypes, as.ActorTypes, as.ObjectTypes ("Mention", a
\* Link type, is in none of them)
ActivityTypes == {"Create"}
ActorTypes == {"Person"}
ObjectTypes == {"Note", "Place", "Profile", "Relationship", "Tombstone"}

\* The decimal digits of n, and the n-th token of uuid.New(): every call
\* yields a token no earlier call has yielded
DigitChars == <<"0", "1", "2", "3", "4", "5", "6", "7", "8", "9">>

RECURSIVE Digits(_)
Digits(n) == IF n < 10 THEN <<DigitChars[n + 1]>>
             ELSE Digits(n \div 10) \o <<DigitChars[(n % 10) + 1]>>

Token(n) == <<"u">> \o Digits(n)

\* GenerateID(it, partOf, by) with the n-th token. conv tells whether the
\* conversion of it to the representation of its type tag (as.ToActivity,
\* as.ToPlace, as.ToProfile, as.ToRelationship, as.ToTombstone, as.ToObject)
\* succeeds. The result carries the returned id and error and the Item as it
\* is at return. In the Activity branch a failed conversion leaves a nil and
\* the assignment a.ID = id dereferences it.
MintedID(partOf, n) == ToLower(partOf) \o <<"/">> \o Token(n)

generateIDKeepsCase(it, partOf, conv, n) ==
    LET id == partOf \o <<"/">> \o Token(n)
    IN  IF it.type \in ActivityTypes
        THEN IF conv THEN [id |-> it.id, err |-> "", it |-> it]
             ELSE [id |-> <<>>, err |-> "panic", it |-> it]
        ELSE IF it.type \in (ActorTypes \cup ObjectTypes)
        THEN IF ~conv THEN [id |-> it.id, err |-> "Conversion", it |-> it]
             ELSE [id |-> id, err |-> "", it |-> [it EXCEPT !.id = id]]
        ELSE [id |-> it.id, err |-> "", it |-> it]

generateID(it, partOf, conv, n) ==
    LET id == MintedID(partOf, n)
    IN  IF it.type \in ActivityTypes
        THEN IF conv THEN [id |-> it.id, err |-> "", it |-> it]
             ELSE [id |-> <<>>, err |-> "panic", it |-> it]
        ELSE IF it.type \in (ActorTypes \cup ObjectTypes)
        THEN IF ~conv THEN [id |-> it.id, err |-> "Conversion", it |-> it]
             ELSE [id |-> id, err |-> "", it |-> [it EXCEPT !.id = id]]
        ELSE [id |-> it.id, err |-> "", it |-> it]

----------------------------------------------------------------------------
(* The inputs the operations are called with *)

Slash(a, b) == a \o <<"/">> \o b

IRIActor1 == Slash(bucketActors, <<"1">>)
IRIActor10 == Slash(bucketActors, <<"1", "0">>)
IRIActivity1 == Slash(bucketActivities, <<"1">>)
IRIObject1 == Slash(bucketObjects, <<"1">>)
IRINone == <<"z">>
IRIInbox == Slash(IRIActor1, <<"i">>)
IRIOutbox == Slash(IRIActor1, <<"o">>)
ParentObjects == <<"O", "b", "j", "e", "c", "t", "s">>

\* The Items handed to the actor operations: two versions of one actor, an
\* actor whose identifier extends the first one's, and an Item without
\* identifier
ActorItems ==
    { Item(IRIActor1, "Person", 1), Item(IRIActor1, "Person", 2),
      Item(IRIActor10, "Person", 1), Item(<<>>, "Person", 1) }

\* The Items handed to the activity operations
ActivityItems == { Item(IRIActivity1, "Create", 1), Item(<<>>, "Create", 1) }

\* The Items handed to the object operations: an object, and an actor that
\* is also saved as an actor
ObjectItems == { Item(IRIObject1, "Note", 1), Item(IRIActor1, "Person", 1) }

\* The Filters: f.IRIs() in order. One prefix, two prefixes in both orders,
\* overlapping prefixes, a prefix of no key, the same prefix twice, none.
Filters ==
    { <<IRIActor1>>, <<IRIActor10>>, <<bucketActors>>, <<IRINone>>,
      <<IRIActor1, IRIActor10>>, <<IRIActor10, IRIActor1>>,
      <<bucketActors, IRIActor1>>, <<IRIActor10, IRIActor10>>,
      <<IRIObject1, IRIActivity1>>, <<>> }

CollectionFilters == {<<IRIInbox>>, <<IRIOutbox, IRIInbox>>, <<IRIActor1>>}

\* The Items and parents handed to GenerateID
GenItems ==
    { Item(IRIActivity1, "Create", 1), Item(IRIActor1, "Person", 1),
      Item(<<>>, "Note", 1), Item(IRIObject1, "Place", 1),
      Item(IRIObject1, "Mention", 1) }

Parents == {bucketActivities, ParentObjects}

KindBuckets == {bucketActors, bucketActivities, bucketObjects}
BucketNames == KindBuckets \cup {bucketCollections}

----------------------------------------------------------------------------
(* The initial states: the store file as the external setup left it *)

\* The collections bucket as provisioned: two membership lists
SeedCollections ==
    Put(Put(EmptyBucket, IRIInbox, MarshalIRIs(<<IRIActor1, IRIActor10>>)).b,
        IRIOutbox, MarshalIRIs(<<IRIActor10>>)).b

NoSub == [n \in BucketNames |-> NoBucket]
FullSub == [n \in BucketNames |->
              IF n = bucketCollections THEN SeedCollections ELSE EmptyBucket]

FileAbsent == [exists |-> FALSE, valid |-> FALSE,
               root |-> [present |-> FALSE, sub |-> NoSub]]
FileInvalid == [FileAbsent EXCEPT !.exists = TRUE]
FileNoRoot == [FileAbsent EXCEPT !.exists = TRUE, !.valid = TRUE]
FileFull == [exists |-> TRUE, valid |-> TRUE,
             root |-> [present |-> TRUE, sub |-> FullSub]]
FileNoObjects == [FileFull EXCEPT !.root.sub[bucketObjects] = NoBucket]

Files == {FileAbsent, FileInvalid, FileNoRoot, FileFull, FileNoObjects}

NoCall ==
    [op |-> "none", bucket |-> <<>>, it |-> Item(<<>>, "", 0), f |-> <<>>,
     partOf |-> <<>>, conv |-> FALSE, fault |-> "none", rit |-> Item(<<>>, "", 0),
     items |-> <<>>, count |-> 0, id |-> <<>>, col |-> NoCollection,
     err |-> ""]

\* No call in progress: no goroutine inside LoadCollection or a Save, no
\* transaction open, nobody waiting for the engine's mmap lock
IdleLoad ==
    [pc |-> "idle", f |-> <<>>, i |-> 0, snap |-> <<>>, nsnap |-> <<>>,
     members |-> <<>>, todo |-> <<>>, col |-> NoCollection,
     ret |-> NoCollection]

IdleSave ==
    [pc |-> "idle", op |-> "none", bucket |-> <<>>, it |-> Item(<<>>, "", 0)]

NoConc ==
    [load |-> IdleLoad, save |-> IdleSave, readers |-> 0, remap |-> FALSE]

Init ==
    /\ store \in Files
    /\ lock = "free"
    /\ db = [open |-> FALSE, root |-> <<>>]
    /\ uuids = 0
    /\ minted = <<>>
    /\ last = NoCall
    /\ pre = [store |-> store, lock |-> "free"]
    /\ saved = [n \in KindBuckets |-> {}]
    /\ conc = NoConc

----------------------------------------------------------------------------
(* The public operations *)

Snapshot == pre' = [store |-> store, lock |-> lock]

\* New(c) with c.BucketName = bucketName. bolt.Open waits for the file lock.
New(bucketName) ==
    /\ lock = "free"
    /\ LET r == NewAdapter(store, bucketName)
       IN  /\ store' = r.st
           /\ lock' = r.lock
           /\ db' = IF r.open THEN [open |-> TRUE, root |-> bucketName] ELSE db
           /\ last' = [NoCall EXCEPT !.op = "New", !.bucket = bucketName,
                                     !.err = r.err]
    /\ Snapshot
    /\ UNCHANGED <<uuids, minted, saved, conc>>

\* A bucket without the entries that do not decode
Purged(b) ==
    [b EXCEPT !.entries = SelectSeq(@, LAMBDA e : UnmarshalJSON(e.v).ok)]

LoadFromPurges(op, bucket, f) ==
    /\ db.open
    /\ LET r == loadFromBucket(store, db.root, bucket, f)
       IN  last' = [NoCall EXCEPT !.op = op, !.bucket = bucket, !.f = f,
                                  !.items = r.col, !.count = r.count,
                                  !.err = r.err]
    /\ store' = [store EXCEPT !.root.sub[bucket] = Purged(@)]
    /\ Snapshot
    /\ UNCHANGED <<lock, db, uuids, minted, saved, conc>>

LoadFrom(op, bucket, f) ==
    /\ db.open
    /\ LET r == loadFromBucket(store, db.root, bucket, f)
       IN  last' = [NoCall EXCEPT !.op = op, !.bucket = bucket, !.f = f,
                                  !.items = r.col, !.count = r.count,
                                  !.err = r.err]
    /\ Snapshot
    /\ UNCHANGED <<store, lock, db, uuids, minted, saved, conc>>

LoadActivities(f) == LoadFrom("LoadActivities", bucketActivities, f)
LoadObjects(f) == LoadFrom("LoadObjects", bucketObjects, f)
LoadActors(f) == LoadFrom("LoadActors", bucketActors, f)

\* Load(f): not implemented
Load(f) ==
    /\ db.open
    /\ last' = [NoCall EXCEPT !.op = "Load", !.f = f, !.err = "NotImplemented"]
    /\ Snapshot
    /\ UNCHANGED <<store, lock, db, uuids, minted, saved, conc>>

LoadCollection(f) ==
    /\ db.open
    /\ LET r == loadCollection(store, db.root, f)
       IN  last' = [NoCall EXCEPT !.op = "LoadCollection", !.f = f,
                                  !.bucket = bucketCollections,
                                  !.col = r.ret, !.err = r.err]
    /\ Snapshot
    /\ UNCHANGED <<store, lock, db, uuids, minted, saved, conc>>

SaveTo(op, bucket, it, fault) ==
    /\ db.open
    /\ LET r == save(store, db.root, bucket, it, fault)
       IN  /\ store' = r.st
           /\ last' = [NoCall EXCEPT !.op = op, !.bucket = bucket, !.it = it,
                                     !.fault = fault, !.rit = r.it,
                                     !.err = r.err]
           /\ saved' = IF r.err # "" THEN saved
                        ELSE [saved EXCEPT ![bucket] =
                                {x \in @ : x.id # it.id} \cup {it}]
    /\ Snapshot
    /\ UNCHANGED <<lock, db, uuids, minted, conc>>

SaveActivity(it, fault) == SaveTo("SaveActivity", bucketActivities, it, fault)
SaveActor(it, fault) == SaveTo("SaveActor", bucketActors, it, fault)
SaveObject(it, fault) == SaveTo("SaveObject", bucketObjects, it, fault)

\* UpdateActor, DeleteActor, UpdateObject, DeleteObject: not implemented
UnsupportedSaves(op, it) ==
    /\ db.open
    /\ LET r == save(store, db.root, bucketActors, it, "none")
       IN  /\ store' = r.st
           /\ last' = [NoCall EXCEPT !.op = op, !.it = it, !.rit = it,
                                     !.err = "NotImplemented"]
    /\ Snapshot
    /\ UNCHANGED <<lock, db, uuids, minted, saved, conc>>

Unsupported(op, it) ==
    /\ db.open
    /\ last' = [NoCall EXCEPT !.op = op, !.it = it, !.rit = it,
                              !.err = "NotImplemented"]
    /\ Snapshot
    /\ UNCHANGED <<store, lock, db, uuids, minted, saved, conc>>

UpdateActor(it) == Unsupported("UpdateActor", it)
DeleteActor(it) == Unsupported("DeleteActor", it)
UpdateObject(it) == Unsupported("UpdateObject", it)
DeleteObject(it) == Unsupported("DeleteObject", it)

\* GenerateID(it, partOf, by)
GenerateID(it, partOf, conv) ==
    /\ db.open
    /\ uuids < MaxUuid
    /\ uuids' = uuids + 1
    /\ LET r == generateID(it, partOf, conv, uuids + 1)
       IN  /\ last' = [NoCall EXCEPT !.op = "GenerateID", !.it = it,
                                     !.partOf = partOf, !.conv = conv,
                                     !.rit = r.it, !.id = r.id, !.err = r.err]
           /\ minted' = IF it.type \in (ActorTypes \cup ObjectTypes)
                           /\ r.err = ""
                        THEN Append(minted, [partOf |-> partOf, id |-> r.id])
                        ELSE minted
    /\ Snapshot
    /\ UNCHANGED <<store, lock, db, saved, conc>>

Faults == {"none", "marshal", "commit"}

Next ==
    \/ \E n \in {RootName, OtherName} : New(n)
    \/ \E f \in Filters : LoadActivities(f)
    \/ \E f \in Filters : LoadObjects(f)
    \/ \E f \in Filters : LoadActors(f)
    \/ \E f \in Filters : Load(f)
    \/ \E f \in CollectionFilters : LoadCollection(f)
    \/ \E it \in ActivityItems, fault \in Faults : SaveActivity(it, fault)
    \/ \E it \in ActorItems, fault \in Faults : SaveActor(it, fault)
    \/ \E it \in ObjectItems, fault \in Faults : SaveObject(it, fault)
    \/ \E it \in ActorItems : UpdateActor(it)
    \/ \E it \in ActorItems : DeleteActor(it)
    \/ \E it \in ObjectItems : UpdateObject(it)
    \/ \E it \in ObjectItems : DeleteObject(it)

Spec == Init /\ [][Next]_vars

\* Identifier generation, which reads and writes nothing of the store
NextID ==
    \/ \E n \in {RootName, OtherName} : New(n)
    \/ \E it \in GenItems, p \in Parents, conv \in BOOLEAN : GenerateID(it, p, conv)

SpecID == Init /\ [][NextID]_vars

----------------------------------------------------------------------------
(* A store file that earlier runs have filled: collections and their members *)

IRIBad == Slash(IRIActor1, <<"b">>)
IRIBoth == Slash(IRIActor1, bucketActivities)
IRIColActors == Slash(IRIActor1, <<"0">>)
IRIColMixed == Slash(IRIActor1, <<"1">>)
IRIColBoth == Slash(IRIActor1, <<"2">>)
IRIColObjects == Slash(IRIActor1, <<"3">>)
IRIColActivities == Slash(IRIActor1, <<"4">>)
IRIColEmpty == Slash(IRIActor1, <<"5">>)
IRIColBad == Slash(IRIActor1, <<"6">>)
IRIColPrefix == Slash(IRIActor1, <<>>)

\* A value that as.UnmarshalJSON and jsonld.Unmarshal reject
BadBlob == [fmt |-> "garbage", doc |-> <<>>]

RECURSIVE PutAll(_, _)
PutAll(b, kvs) ==
    IF kvs = <<>> THEN b
    ELSE PutAll(Put(b, kvs[1][1], kvs[1][2]).b, Tail(kvs))

PutItems(its) == PutAll(EmptyBucket, [i \in 1..Len(its) |-> <<its[i].id, Marshal(its[i])>>])

SeededActors ==
    PutAll(PutItems(<<Item(IRIActor1, "Person", 1), Item(IRIActor10, "Person", 1)>>),
           << <<IRIBad, BadBlob>> >>)

SeededActivities ==
    PutItems(<<Item(IRIActivity1, "Create", 1), Item(IRIBoth, "Create", 2)>>)

SeededObjects == PutItems(<<Item(IRIObject1, "Note", 1)>>)

SeededCollections ==
    PutAll(EmptyBucket,
        << <<IRIColActors, MarshalIRIs(<<IRIActor1>>)>>,
           <<IRIColMixed, MarshalIRIs(<<IRIActor10, IRIActivity1>>)>>,
           <<IRIColBoth, MarshalIRIs(<<IRIBoth>>)>>,
           <<IRIColObjects, MarshalIRIs(<<IRIObject1>>)>>,
           <<IRIColActivities, MarshalIRIs(<<IRIActivity1>>)>>,
           <<IRIColEmpty, MarshalIRIs(<<>>)>>,
           <<IRIColBad, BadBlob>> >>)

SeededSub ==
    [n \in BucketNames |->
        IF n = bucketActors THEN SeededActors
        ELSE IF n = bucketActivities THEN SeededActivities
        ELSE IF n = bucketObjects THEN SeededObjects
        ELSE SeededCollections]

FileSeeded == [exists |-> TRUE, valid |-> TRUE,
               root |-> [present |-> TRUE, sub |-> SeededSub]]
FileSeededNoObjects == [FileSeeded EXCEPT !.root.sub[bucketObjects] = NoBucket]
FileSeededNoCollections ==
    [FileSeeded EXCEPT !.root.sub[bucketCollections] = NoBucket]

SeededFiles == {FileSeeded, FileSeededNoObjects, FileSeededNoCollections}

\* The Items of a bucket that decode
RECURSIVE DecodedItems(_)
DecodedItems(es) ==
    IF es = <<>> THEN {}
    ELSE (IF UnmarshalJSON(es[1].v).ok THEN {UnmarshalJSON(es[1].v).it} ELSE {})
         \cup DecodedItems(Tail(es))

SeededFilters ==
    { <<IRIActor1>>, <<IRIBad>>, <<IRIActor10, IRIActor1>>, <<bucketActors>>,
      <<IRIActivity1>>, <<IRIObject1>>, <<IRINone>> }

SeededCollectionFilters ==
    { <<IRIColActors>>, <<IRIColMixed>>, <<IRIColBoth>>, <<IRIColObjects>>,
      <<IRIColActivities>>, <<IRIColEmpty>>, <<IRIColBad>>, <<IRIColPrefix>>,
      <<IRIColActivities, IRIColObjects>>, <<IRIColObjects, IRIColActivities>>,
      <<IRIColActors, IRIColBad>>, <<IRIColActors, IRINone>>, <<>> }

InitSeeded ==
    /\ store \in SeededFiles
    /\ lock = "free"
    /\ db = [open |-> FALSE, root |-> <<>>]
    /\ uuids = 0
    /\ minted = <<>>
    /\ last = NoCall
    /\ pre = [store |-> store, lock |-> "free"]
    /\ saved = [n \in KindBuckets |-> DecodedItems(store.root.sub[n].entries)]
    /\ conc = NoConc

NextSeeded ==
    \/ \E n \in {RootName, OtherName} : New(n)
    \/ \E f \in SeededFilters : LoadActivities(f)
    \/ \E f \in SeededFilters : LoadObjects(f)
    \/ \E f \in SeededFilters : LoadActors(f)
    \/ \E f \in SeededCollectionFilters : LoadCollection(f)
    \/ \E it \in GenItems, p \in Parents, conv \in BOOLEAN : GenerateID(it, p, conv)

SpecSeeded == InitSeeded /\ [][NextSeeded]_vars

----------------------------------------------------------------------------
(* Calls on several goroutines: LoadCollection and a Save, step by step *)

\* db.View and db.Update of the engine. A read transaction holds the mmap
\* lock for reading from its begin to its end and sees the store as it was
\* committed when it began. A write transaction whose commit has to grow the
\* file takes the mmap lock for writing: it waits until no read transaction
\* is open, and while it waits no read transaction can begin.
CanBeginRead == ~conc.remap
CanRemap == conc.readers = 0

\* The per-kind Loads LoadCollection calls for a membership list, in the
\* order of the three if statements
SearchOrder == <<bucketActivities, bucketActors, bucketObjects>>

Searches(IRIs) ==
    IF IRIs = <<>> THEN <<>>
    ELSE SelectSeq(SearchOrder, LAMBDA n : Contains(Head(IRIs), n))

\* The outer View cannot find the root bucket or the collections bucket
NoCollections(st) ==
    \/ ~TxBucket(st, db.root).present
    \/ ~SubBucket(TxBucket(st, db.root), bucketCollections).present

\* LoadCollection(f) enters b.d.View: the outer read transaction begins
BeginLoadCollection(f) ==
    /\ db.open
    /\ conc.load.pc = "idle"
    /\ CanBeginRead
    /\ conc' = [conc EXCEPT !.readers = @ + 1,
                            !.load = [IdleLoad EXCEPT !.pc = "outer", !.f = f,
                                                      !.i = 1, !.snap = store]]
    /\ UNCHANGED <<store, lock, db, uuids, minted, last, pre, saved>>

\* One turn of the loop over f.IRIs(): cb.Get and jsonld.Unmarshal of the
\* membership list, in the outer transaction
ReadMembers ==
    /\ conc.load.pc = "outer"
    /\ ~NoCollections(conc.load.snap)
    /\ conc.load.i <= Len(conc.load.f)
    /\ LET L == conc.load
           iri == L.f[L.i]
           cb == SubBucket(TxBucket(L.snap, db.root), bucketCollections)
           d == UnmarshalIRIs(Get(cb, iri))
           col == [present |-> TRUE, id |-> iri, items |-> <<>>, total |-> 0]
       IN  conc' = [conc EXCEPT !.load =
                IF ~d.ok THEN [L EXCEPT !.i = @ + 1]
                ELSE IF Searches(d.iris) = <<>>
                THEN [L EXCEPT !.i = @ + 1, !.ret = col]
                ELSE [L EXCEPT !.pc = "call", !.members = d.iris,
                               !.todo = Searches(d.iris), !.col = col]]
    /\ UNCHANGED <<store, lock, db, uuids, minted, last, pre, saved>>

\* b.LoadActivities / b.LoadActors / b.LoadObjects called from inside the
\* outer View: loadFromBucket enters b.d.View, a second read transaction
BeginNestedLoad ==
    /\ conc.load.pc = "call"
    /\ CanBeginRead
    /\ conc' = [conc EXCEPT !.readers = @ + 1,
                            !.load.pc = "nested",
                            !.load.nsnap = store]
    /\ UNCHANGED <<store, lock, db, uuids, minted, last, pre, saved>>

\* The nested Load returns: its transaction ends, its Items and count
\* overwrite those of the Collection
EndNestedLoad ==
    /\ conc.load.pc = "nested"
    /\ LET L == conc.load
           r == loadFromBucket(L.nsnap, db.root, Head(L.todo), L.members)
           col == [L.col EXCEPT !.items = r.col, !.total = r.count]
       IN  conc' = [conc EXCEPT !.readers = @ - 1, !.load =
                IF Tail(L.todo) = <<>>
                THEN [L EXCEPT !.pc = "outer", !.i = @ + 1, !.ret = col,
                               !.col = NoCollection, !.members = <<>>,
                               !.todo = <<>>, !.nsnap = <<>>]
                ELSE [L EXCEPT !.pc = "call", !.col = col,
                               !.todo = Tail(@), !.nsnap = <<>>]]
    /\ UNCHANGED <<store, lock, db, uuids, minted, last, pre, saved>>

\* The outer View returns and LoadCollection with it
EndLoadCollection ==
    /\ conc.load.pc = "outer"
    /\ NoCollections(conc.load.snap) \/ conc.load.i > Len(conc.load.f)
    /\ LET L == conc.load
       IN  /\ last' = [NoCall EXCEPT
                         !.op = "LoadCollection", !.f = L.f,
                         !.bucket = bucketCollections,
                         !.col = IF NoCollections(L.snap) THEN NoCollection
                                 ELSE L.ret,
                         !.err = IF NoCollections(L.snap) THEN "Error" ELSE ""]
           /\ pre' = [store |-> L.snap, lock |-> lock]
    /\ conc' = [conc EXCEPT !.readers = @ - 1, !.load = IdleLoad]
    /\ UNCHANGED <<store, lock, db, uuids, minted, saved>>

\* A Save enters b.d.Update: the write transaction begins
BeginSave(op, bucket, it) ==
    /\ db.open
    /\ conc.save.pc = "idle"
    /\ conc' = [conc EXCEPT !.save = [pc |-> "update", op |-> op,
                                      bucket |-> bucket, it |-> it]]
    /\ UNCHANGED <<store, lock, db, uuids, minted, last, pre, saved>>

\* The commit of the write transaction has to grow the file: it asks for
\* the mmap lock
RequestRemap ==
    /\ conc.save.pc = "update"
    /\ save(store, db.root, conc.save.bucket, conc.save.it, "none").err = ""
    /\ conc' = [conc EXCEPT !.save.pc = "remap", !.remap = TRUE]
    /\ UNCHANGED <<store, lock, db, uuids, minted, last, pre, saved>>

\* The write transaction commits (or rolls back after an error of the
\* closure), and the Save returns
EndSave ==
    /\ \/ conc.save.pc = "update"
       \/ conc.save.pc = "remap" /\ CanRemap
    /\ LET S == conc.save
           r == save(store, db.root, S.bucket, S.it, "none")
       IN  /\ store' = r.st
           /\ last' = [NoCall EXCEPT !.op = S.op, !.bucket = S.bucket,
                                     !.it = S.it, !.rit = r.it, !.err = r.err]
           /\ saved' = IF r.err # "" THEN saved
                        ELSE [saved EXCEPT ![S.bucket] =
                                {x \in @ : x.id # S.it.id} \cup {S.it}]
    /\ Snapshot
    /\ conc' = [conc EXCEPT !.save = IdleSave, !.remap = FALSE]
    /\ UNCHANGED <<lock, db, uuids, minted>>

\* The collections asked for and the Items saved while they are loaded
ConcFilters ==
    { <<IRIColActors>>, <<IRIColBoth>>, <<IRIColActors, IRIColObjects>>,
      <<IRIColEmpty, IRIColBad>> }

NextConc ==
    \/ New(RootName)
    \/ \E f \in ConcFilters : BeginLoadCollection(f)
    \/ ReadMembers
    \/ BeginNestedLoad
    \/ EndNestedLoad
    \/ EndLoadCollection
    \/ BeginSave("SaveActor", bucketActors, Item(IRIActor1, "Person", 2))
    \/ BeginSave("SaveObject", bucketObjects, Item(IRIObject1, "Note", 2))
    \/ RequestRemap
    \/ EndSave

SpecConc == InitSeeded /\ [][NextConc]_vars

----------------------------------------------------------------------------
(* Properties *)

PerKindLoads == {"LoadActors", "LoadActivities", "LoadObjects"}
SaveOps == {"SaveActor", "SaveActivity", "SaveObject"}
UnsupportedOps == {"Load", "UpdateActor", "DeleteActor", "UpdateObject", "DeleteObject"}

\* The kind bucket of that name in a store file
Bkt(st, name) == st.root.sub[name]

\* A set of Items with distinct identifiers, in ascending identifier order
RECURSIVE InKeyOrder(_)
InKeyOrder(S) ==
    IF S = {} THEN <<>>
    ELSE LET m == CHOOSE x \in S : \A y \in S \ {x} : BytesLess(x.id, y.id)
         IN  <<m>> \o InKeyOrder(S \ {m})

\* The saved Items of a bucket whose identifier starts with p, in key order
SavedMatches(bucket, p) ==
    InKeyOrder({x \in saved[bucket] : HasPrefix(x.id, p)})

LoadedOK == last.op \in PerKindLoads /\ last.err = ""

\* The last call was a per-kind Load by the identifier of a saved Item
LoadedByID ==
    /\ LoadedOK
    /\ Len(last.f) = 1
    /\ \E x \in saved[last.bucket] : x.id = last.f[1]

SavedAs(bucket, id) == CHOOSE x \in saved[bucket] : x.id = id

\* C1, as stated: after a Save of an Item succeeded, the per-kind Load with
\* the Item's identifier as the single prefix returns exactly that Item,
\* a one-element sequence with count 1, whatever else the bucket holds.
C1_RoundTripExactlyOne ==
    LoadedByID =>
        /\ last.items = <<SavedAs(last.bucket, last.f[1])>>
        /\ last.count = 1

\* C1, amended: that Load returns the saved Item first, followed by the
\* saved Items of the bucket whose identifiers properly extend the
\* identifier, in key order, with the count equal to the length; it is the
\* one-element sequence with count 1 exactly when no other identifier of the
\* bucket starts with the Item's identifier.
C1_RoundTripPrefix ==
    LoadedByID =>
        LET x == SavedAs(last.bucket, last.f[1])
            longer == {y \in saved[last.bucket] :
                         y.id # x.id /\ HasPrefix(y.id, x.id)}
        IN  /\ last.items = <<x>> \o InKeyOrder(longer)
            /\ last.count = Len(last.items)
            /\ (longer = {}) <=> (last.items = <<x>> /\ last.count = 1)

\* C1 witness: an Item is loaded back alone by its identifier from a bucket
\* that holds another Item too.
C1_Witness ==
    /\ LoadedByID
    /\ Cardinality(saved[last.bucket]) >= 2
    /\ last.items = <<SavedAs(last.bucket, last.f[1])>>

\* The last call was a Save that succeeded
SavedOK == last.op \in SaveOps /\ last.err = ""

EntriesAt(b, k) == {i \in 1..Len(b.entries) : b.entries[i].k = k}

\* C2: a successful Save of an Item whose identifier is already a key of the
\* bucket leaves exactly one entry at that key, holding the payload of this
\* Save, and the number of keys of the bucket does not grow.
C2_Overwrite ==
    SavedOK =>
        LET b == Bkt(store, last.bucket)
            b0 == Bkt(pre.store, last.bucket)
            k == GetLink(last.it)
        IN  /\ Cardinality(EntriesAt(b, k)) = 1
            /\ Get(b, k) = Marshal(last.it)
            /\ UnmarshalJSON(Get(b, k)).it = last.it
            /\ k \in Keys(b0) => Len(b.entries) = Len(b0.entries)

\* C2 witness: a Save has replaced a different payload stored under the
\* same identifier.
C2_Witness ==
    /\ SavedOK
    /\ GetLink(last.it) \in Keys(Bkt(pre.store, last.bucket))
    /\ Get(Bkt(pre.store, last.bucket), GetLink(last.it)) # Marshal(last.it)
    /\ Len(Bkt(store, last.bucket).entries) = 2

\* C3: a per-kind Load with two prefixes returns the Items whose key starts
\* with the first prefix in ascending key order, followed by the Items whose
\* key starts with the second prefix in ascending key order: not
\* interleaved, not sorted as a whole, not de-duplicated.
C3_TwoPrefixes ==
    (LoadedOK /\ Len(last.f) = 2) =>
        /\ last.items = SavedMatches(last.bucket, last.f[1])
                        \o SavedMatches(last.bucket, last.f[2])
        /\ last.count = Len(last.items)

\* C3 witness: both prefixes match, a key matches both and comes back twice,
\* and the result as a whole is not in key order.
C3_Witness ==
    /\ LoadedOK /\ Len(last.f) = 2
    /\ Len(last.items) = 3
    /\ last.items[1] = last.items[3]
    /\ BytesLess(last.items[2].id, last.items[1].id)

\* No prefix of the filter is a byte-prefix of a key of the bucket
Disjoint(f, b) ==
    \A i \in 1..Len(f) : \A k \in Keys(b) : ~HasPrefix(k, f[i])

\* C4, as stated: a per-kind Load whose prefixes are disjoint from the stored
\* keys returns the empty sequence and count 0 and never an error, in every
\* reachable state of the store.
C4_DisjointNeverFails ==
    (last.op \in PerKindLoads /\ Disjoint(last.f, Bkt(store, last.bucket))) =>
        /\ last.items = <<>>
        /\ last.count = 0
        /\ last.err = ""

\* C4, amended: such a Load returns the empty sequence and count 0; it
\* returns no error when the kind bucket exists, and an error when the kind
\* bucket is missing from the root bucket.
C4_DisjointEmpty ==
    (last.op \in PerKindLoads /\ Disjoint(last.f, Bkt(store, last.bucket))) =>
        /\ last.items = <<>>
        /\ last.count = 0
        /\ (last.err = "") <=> Bkt(store, last.bucket).present

\* C4 witness: a Load with a prefix of no key, from a bucket that holds keys
\* before and after that prefix, returned nothing and no error.
C4_Witness ==
    /\ LoadedOK
    /\ last.f = <<IRIActor10>>
    /\ Len(Bkt(store, last.bucket).entries) = 2
    /\ Disjoint(last.f, Bkt(store, last.bucket))
    /\ last.items = <<>>

\* The last call was New on a file that is absent or a database, and whose
\* root bucket of the configured name does not exist
NewWithoutRoot ==
    /\ last.op = "New"
    /\ pre.store.exists => pre.store.valid
    /\ ~TxBucket(pre.store, last.bucket).present

\* C5: New against a store file whose root bucket does not exist fails with
\* NotFound and leaves no partial state: the file is as it was before the
\* call (none is created), and no open handle and no file lock remain.
C5_FailedNewLeavesNothing ==
    NewWithoutRoot =>
        /\ last.err = "NotFound"
        /\ ~db.open
        /\ store = pre.store
        /\ lock = pre.lock

\* Every entry of a bucket decodes to an Item whose identifier is its key
KeyedByID(b) ==
    \A i \in 1..Len(b.entries) :
        /\ UnmarshalJSON(b.entries[i].v).ok
        /\ UnmarshalJSON(b.entries[i].v).it.id = b.entries[i].k

\* No two entries of a bucket share a key
DistinctKeys(b) ==
    \A i, j \in 1..Len(b.entries) : b.entries[i].k = b.entries[j].k => i = j

\* C6: in every reachable state every entry of the actors, activities and
\* objects buckets is stored under the identifier of the Item its value
\* encodes, and no two entries of one bucket share a key.
C6_StoredKeyInvariant ==
    \A n \in KindBuckets :
        KeyedByID(Bkt(store, n)) /\ DistinctKeys(Bkt(store, n))

\* C6 witness: a bucket holds two Items, one of them written twice.
C6_Witness ==
    /\ C2_Witness
    /\ Len(Bkt(store, bucketActors).entries) = 2

\* The last call was GenerateID for an Activity-kind Item that has an identifier
GeneratedForActivity ==
    /\ last.op = "GenerateID"
    /\ last.it.type \in ActivityTypes
    /\ last.it.id # <<>>

\* C7: GenerateID for an Activity-kind Item that already has an identifier
\* returns that identifier, not the newly built one, and leaves the Item's
\* identifier as it was.
C7_ActivityKeepsID ==
    GeneratedForActivity =>
        /\ last.err = ""
        /\ last.id = last.it.id
        /\ last.id # MintedID(last.partOf, uuids)
        /\ last.rit.id = last.it.id

\* The last call was GenerateID for an Actor-kind or Object-kind Item
GeneratedForObject ==
    /\ last.op = "GenerateID"
    /\ last.it.type \in (ActorTypes \cup ObjectTypes)

\* No identifier was returned twice
NoIDTwice ==
    \A i, j \in 1..Len(minted) : minted[i].id = minted[j].id => i = j

\* C8, as stated: GenerateID for an Actor-kind or Object-kind Item with
\* parent P returns lowercase(P) + "/" + token and assigns it to the Item,
\* and no two calls return the same identifier.
C8_MintsAlways ==
    /\ GeneratedForObject =>
          /\ last.err = ""
          /\ last.id = ToLower(last.partOf) \o <<"/">> \o Token(uuids)
          /\ last.rit.id = last.id
    /\ NoIDTwice

\* C8, amended: that holds for the calls in which the conversion of the Item
\* to its concrete representation succeeds; among those calls no two return
\* the same identifier.
C8_MintsWhenConverted ==
    /\ (GeneratedForObject /\ last.conv) =>
          /\ last.err = ""
          /\ last.id = ToLower(last.partOf) \o <<"/">> \o Token(uuids)
          /\ \A i \in 1..Len(last.id) : LowerChar(last.id[i]) = last.id[i]
          /\ last.rit.id = last.id
          /\ minted # <<>> /\ minted[Len(minted)].id = last.id
    /\ NoIDTwice

\* C8 witness: two calls with the same parent, which has upper-case letters,
\* have each returned an identifier.
C8_Witness ==
    /\ GeneratedForObject /\ last.conv
    /\ Len(minted) = 2
    /\ minted[1].partOf = ParentObjects
    /\ minted[2].partOf = ParentObjects

\* What makes a Save fail
SaveMustFail ==
    \/ ~TxBucket(pre.store, db.root).present
    \/ ~Bkt(pre.store, last.bucket).present
    \/ GetLink(last.it) = <<>>
    \/ last.fault # "none"

\* C9: Save returns the Item it was given; it fails with an error when the
\* root bucket or the kind bucket is missing or the engine's write fails;
\* and after every failed Save the file is as it was before the call.
C9_SaveFailures ==
    last.op \in SaveOps =>
        /\ last.rit = last.it
        /\ SaveMustFail <=> (last.err # "")
        /\ (last.err # "") => store = pre.store

\* C9 witness: a Save failed in the engine's commit, after its Put changed
\* the bucket inside the transaction.
C9_Witness ==
    /\ last.op \in SaveOps
    /\ last.fault = "commit"
    /\ last.err = "IO"
    /\ GetLink(last.it) \in Keys(Bkt(store, last.bucket))
    /\ Get(Bkt(store, last.bucket), GetLink(last.it)) # Marshal(last.it)

\* C10: Load, UpdateActor, DeleteActor, UpdateObject and DeleteObject fail
\* with NotImplemented for every input and leave the store file unchanged.
C10_Unsupported ==
    last.op \in UnsupportedOps =>
        /\ last.err = "NotImplemented"
        /\ store = pre.store
        /\ lock = pre.lock

\* C10 witness: an unsupported operation was called with an Item whose
\* identifier is not stored, on a store that holds other Items.
C10_Witness ==
    /\ last.op = "UpdateActor"
    /\ last.err = "NotImplemented"
    /\ GetLink(last.it) # <<>>
    /\ GetLink(last.it) \notin Keys(Bkt(store, bucketActors))
    /\ Len(Bkt(store, bucketActors).entries) = 1

----------------------------------------------------------------------------
(* Properties of LoadCollection and of the reads *)

\* The saved Items of a bucket matched by the prefixes of f, prefix by prefix
RECURSIVE LoadRef(_, _)
LoadRef(bucket, f) ==
    IF f = <<>> THEN <<>>
    ELSE SavedMatches(bucket, Head(f)) \o LoadRef(bucket, Tail(f))

\* The membership list stored at exactly the key iri, and whether there is one
MembersAt(iri) ==
    LET b == Bkt(store, bucketCollections)
        at == {i \in 1..Len(b.entries) : b.entries[i].k = iri}
    IN  IF at = {} THEN UnmarshalIRIs(NoBlob)
        ELSE UnmarshalIRIs(b.entries[CHOOSE i \in at : TRUE].v)

AnyContains(members, name) ==
    \E i \in 1..Len(members) : Contains(members[i], name)

\* The kind C11 says is chosen: any member, activities before actors before
\* objects; <<>> when no member names a kind
KindByAnyMember(members) ==
    IF AnyContains(members, bucketActivities) THEN bucketActivities
    ELSE IF AnyContains(members, bucketActors) THEN bucketActors
    ELSE IF AnyContains(members, bucketObjects) THEN bucketObjects
    ELSE <<>>

\* The Items a Collection with these members embeds when they are resolved
\* in the bucket of that kind
Resolved(kind, members) ==
    IF kind = <<>> THEN <<>>
    ELSE IF ~Bkt(store, kind).present THEN <<>>
    ELSE LoadRef(kind, members)

\* The last call was LoadCollection with one prefix that is the key of a
\* membership list
LoadedOneCollection ==
    /\ last.op = "LoadCollection"
    /\ last.err = ""
    /\ Len(last.f) = 1
    /\ MembersAt(last.f[1]).ok

\* C11: LoadCollection resolves the members in the bucket of the kind that
\* any member identifier names, "activities" before "actors" before
\* "objects", and returns the Items of that one kind.
C11_ClassifiedByAnyMember ==
    LoadedOneCollection =>
        LET members == MembersAt(last.f[1]).iris
        IN  last.col.items = Resolved(KindByAnyMember(members), members)

\* The last prefix of f that is the key of a decodable membership list,
\* <<>> when there is none
RECURSIVE LastDecodable(_)
LastDecodable(f) ==
    IF f = <<>> THEN <<>>
    ELSE IF MembersAt(f[Len(f)]).ok THEN f[Len(f)]
    ELSE LastDecodable(SubSeq(f, 1, Len(f) - 1))

LoadedSeveral ==
    /\ last.op = "LoadCollection"
    /\ last.err = ""
    /\ Len(last.f) >= 2

\* C12, as stated: with several prefixes the returned Collection is that of
\* the last prefix of the filter alone.
C12_LastPrefixOnly ==
    LoadedSeveral =>
        /\ last.col = loadCollection(store, db.root, <<last.f[Len(last.f)]>>).ret
        /\ last.col.present => last.col.id = last.f[Len(last.f)]

\* C12, amended: with several prefixes the returned Collection is that of
\* the last prefix that is the key of a decodable membership list, alone:
\* its identifier, its members resolved, nothing of an earlier prefix; a
\* later prefix without such a list leaves it in place, and there is no
\* Collection when no prefix has one.
C12_LastDecodablePrefixOnly ==
    LoadedSeveral =>
        LET p == LastDecodable(last.f)
        IN  /\ last.col.present <=> (p # <<>>)
            /\ last.col = loadCollection(store, db.root, <<p>>).ret
            /\ last.col.present =>
                  /\ last.col.id = p
                  /\ \E k \in KindBuckets \cup {<<>>} :
                        last.col.items = Resolved(k, MembersAt(p).iris)
                  /\ last.col.total = Len(last.col.items)

\* C12 witness: two collections with members were named, and the returned
\* Collection holds the Items of the second and none of the first.
C12_Witness ==
    /\ LoadedSeveral
    /\ last.f = <<IRIColActivities, IRIColObjects>>
    /\ last.col.id = IRIColObjects
    /\ Len(last.col.items) = 1
    /\ last.col.items[1].id = IRIObject1

\* The kind whose Load ran last for these members: decided by the first
\* member; <<>> when it names no kind
KindLoaded(members) ==
    IF members = <<>> THEN <<>>
    ELSE IF Contains(members[1], bucketObjects) THEN bucketObjects
    ELSE IF Contains(members[1], bucketActors) THEN bucketActors
    ELSE IF Contains(members[1], bucketActivities) THEN bucketActivities
    ELSE <<>>

\* C13: LoadCollection with one prefix uses the membership list stored at
\* exactly that key and no list stored under a longer key; the Collection's
\* id is the prefix, its Items are what the per-kind Load returns for the
\* membership list as Filter, and its total is their number.
C13_ExactKey ==
    (last.op = "LoadCollection" /\ last.err = "" /\ Len(last.f) = 1) =>
        LET m == MembersAt(last.f[1])
        IN  /\ last.col.present <=> m.ok
            /\ m.ok => /\ last.col.id = last.f[1]
                       /\ last.col.items = Resolved(KindLoaded(m.iris), m.iris)
                       /\ last.col.total = Len(last.col.items)
            /\ ~m.ok => last.col = NoCollection

\* C13 witness: the prefix is no key of the collections bucket, though keys
\* of membership lists start with it, and no Collection came back.
C13_Witness ==
    /\ last.op = "LoadCollection" /\ last.err = ""
    /\ last.f = <<IRIColPrefix>>
    /\ \E k \in Keys(Bkt(store, bucketCollections)) :
          HasPrefix(k, IRIColPrefix) /\ MembersAt(k).ok
    /\ ~last.col.present

\* C14: a per-kind Load drops the stored values that do not decode and
\* raises no error for them; the other matching Items come back in order,
\* and the count is the length of the returned sequence.
C14_BestEffortDecode ==
    (last.op \in PerKindLoads /\ Bkt(store, last.bucket).present) =>
        /\ last.err = ""
        /\ last.items = LoadRef(last.bucket, last.f)
        /\ last.count = Len(last.items)

\* The entries of the last Load's bucket whose key starts with its first prefix
Scanned ==
    SelectSeq(Bkt(store, last.bucket).entries,
              LAMBDA e : HasPrefix(e.k, last.f[1]))

\* C14 witness: the scan met a value that does not decode between two that
\* do, and returned those two.
C14_Witness ==
    /\ LoadedOK /\ Len(last.f) = 1
    /\ Len(Scanned) = 3
    /\ ~UnmarshalJSON(Scanned[2].v).ok
    /\ last.items = <<UnmarshalJSON(Scanned[1].v).it, UnmarshalJSON(Scanned[3].v).it>>
    /\ last.count = 2

\* C15: whenever the conversion of the Item to its concrete representation
\* fails, in any type branch, GenerateID returns the Item's existing
\* identifier together with the conversion error and leaves the Item's
\* identifier unchanged.
C15_ConversionFailure ==
    (/\ last.op = "GenerateID"
     /\ last.it.type \in (ActivityTypes \cup ActorTypes \cup ObjectTypes)
     /\ ~last.conv) =>
        /\ last.err = "Conversion"
        /\ last.id = last.it.id
        /\ last.rit.id = last.it.id

\* C18: a Save that succeeded changed nothing but the entry at the key
\* it.GetLink() of the bucket of its own kind: every other key of that
\* bucket and the other three buckets are as they were; and a per-kind Load
\* returns only Items that were saved as that kind.
C18_SaveFrame ==
    /\ SavedOK =>
          /\ \A n \in BucketNames \ {last.bucket} :
                Bkt(store, n) = Bkt(pre.store, n)
          /\ Keys(Bkt(store, last.bucket)) =
                Keys(Bkt(pre.store, last.bucket)) \cup {GetLink(last.it)}
          /\ \A k \in Keys(Bkt(pre.store, last.bucket)) \ {GetLink(last.it)} :
                Get(Bkt(store, last.bucket), k) = Get(Bkt(pre.store, last.bucket), k)
    /\ LoadedOK =>
          \A i \in 1..Len(last.items) : last.items[i] \in saved[last.bucket]

\* C18 witness: an Item was saved into one kind bucket while another kind
\* bucket held an entry at the same key and a third was empty, and the Save
\* left both as they were.
C18_Witness ==
    /\ SavedOK
    /\ \E n \in KindBuckets \ {last.bucket} :
          /\ GetLink(last.it) \in Keys(Bkt(store, n))
          /\ Bkt(store, n) = Bkt(pre.store, n)
    /\ \E n \in KindBuckets \ {last.bucket} :
          /\ Bkt(store, n).present
          /\ Bkt(store, n).entries = <<>>
    /\ Bkt(store, last.bucket) # Bkt(pre.store, last.bucket)

ReadOps == PerKindLoads \cup {"LoadCollection", "GenerateID"}

\* C19: LoadActors, LoadActivities, LoadObjects, LoadCollection and
\* GenerateID leave the store as it was, for every input, and a Load that
\* repeats the Load before it returns what that one returned.
C19_ReadsLeaveStore ==
    [][/\ last'.op \in ReadOps => store' = store
       /\ (/\ last'.op \in PerKindLoads \cup {"LoadCollection"}
           /\ last'.op = last.op
           /\ last'.f = last.f
           /\ db' = db) =>
              /\ last'.items = last.items
              /\ last'.count = last.count
              /\ last'.col = last.col
              /\ last'.err = last.err]_vars

\* C19 witness: a Load ran over a bucket that holds a value that does not
\* decode, returned Items, and the store is as it was before the Load.
C19_Witness ==
    /\ LoadedOK
    /\ last.items # <<>>
    /\ \E i \in 1..Len(Bkt(store, last.bucket).entries) :
          ~UnmarshalJSON(Bkt(store, last.bucket).entries[i].v).ok
    /\ store = pre.store

\* C20: when the root bucket and the collections bucket exist,
\* LoadCollection returns no error: there is no Collection when no prefix is
\* the key of a decodable membership list, and an error of the nested
\* per-kind Load is not passed on.
C20_NeverFails ==
    (/\ last.op = "LoadCollection"
     /\ TxBucket(store, db.root).present
     /\ SubBucket(TxBucket(store, db.root), bucketCollections).present) =>
        /\ last.err = ""
        /\ LastDecodable(last.f) = <<>> => last.col = NoCollection

\* C20 witness: the members of the collection name the objects bucket, the
\* store has no objects bucket, so that LoadObjects fails, and
\* LoadCollection returned the Collection without Items and without error.
C20_Witness ==
    /\ LoadedOneCollection
    /\ KindLoaded(MembersAt(last.f[1]).iris) = bucketObjects
    /\ ~Bkt(store, bucketObjects).present
    /\ last.col.present
    /\ last.col.items = <<>>
    /\ last.err = ""

\* C16: a LoadCollection that ran while Saves committed returns the
\* Collection of one snapshot: the membership list and the embedded Items
\* are those of the store as it was when the outer transaction began.
C16_OneSnapshot ==
    (last.op = "LoadCollection" /\ last.err = "") =>
        last.col = loadCollection(pre.store, db.root, last.f).ret

LoadInProgress == conc.load.pc # "idle"
SaveInProgress == conc.save.pc # "idle"

\* The goroutine inside LoadCollection, or inside the Save, can take its
\* next step
LoadCanStep ==
    /\ LoadInProgress
    /\ conc.load.pc = "call" => CanBeginRead
SaveCanStep ==
    /\ SaveInProgress
    /\ conc.save.pc = "remap" => CanRemap

\* C17: no transaction is open and nobody holds or awaits an engine lock
\* when no call is in progress, and a call in progress is never stuck: as
\* long as calls are in progress one of them can take its next step, so
\* that every call returns.
C17_ScopedAndCompletes ==
    /\ (~LoadInProgress /\ ~SaveInProgress) =>
          (conc.readers = 0 /\ ~conc.remap)
    /\ (LoadInProgress \/ SaveInProgress) => (LoadCanStep \/ SaveCanStep)

====
